---- MODULE Spec2Model ----
(***************************************************************************)
(* Model of the vanity-worker: the replenishment controller (main), the    *)
(* search worker (ensureBuffer), the pattern matcher (matches) and the     *)
(* secret sealer (getKey / encryptSecret / decryptSecret).                 *)
(*                                                                         *)
(* Strings are sequences of one-character strings, byte buffers are        *)
(* sequences of integers 0..255.                                           *)
(***************************************************************************)
EXTENDS Integers, Sequences, FiniteSets, TLC

(***************************************************************************)
(* Generic helpers for strings and buffers                                 *)
(***************************************************************************)

\* A function on 1..n as the explicit sequence of its values.
AsSeq(f) == << >> \o f

\* Buffer.subarray(start, end) / String.slice: 0-based, end exclusive, both
\* clamped to the length.
SubArray(b, start, end) ==
    LET n  == Len(b)
        s  == IF start > n THEN n ELSE start
        e  == IF end > n THEN n ELSE end
    IN  IF e <= s THEN << >> ELSE AsSeq([i \in 1..(e - s) |-> b[s + i]])

\* String.prototype.endsWith
EndsWith(str, suffix) ==
    /\ Len(suffix) <= Len(str)
    /\ \A i \in 1..Len(suffix) : str[Len(str) - Len(suffix) + i] = suffix[i]

\* A one-byte fingerprint of a buffer: its length and its first, middle and
\* last bytes.
Digest(b) ==
    IF b = << >> THEN 0
    ELSE (7 * b[1] + 13 * b[(Len(b) + 1) \div 2] + 29 * b[Len(b)] + 31 * Len(b)) % 251

\* Position (1-based) of c in the sequence alphabet, 0 when absent.
IndexOf(c, alphabet) ==
    IF \E i \in 1..Len(alphabet) : alphabet[i] = c
    THEN CHOOSE i \in 1..Len(alphabet) : alphabet[i] = c
    ELSE 0

Rep(c, n) == AsSeq([i \in 1..n |-> c])

(***************************************************************************)
(* crypto.ts                                                               *)
(***************************************************************************)

IV_LENGTH == 12
TAG_LENGTH == 16
KEY_LENGTH == 32

HexLower == << "0","1","2","3","4","5","6","7","8","9","a","b","c","d","e","f" >>
HexUpper == << "0","1","2","3","4","5","6","7","8","9","A","B","C","D","E","F" >>

B64Alphabet ==
    << "A","B","C","D","E","F","G","H","I","J","K","L","M","N","O","P",
       "Q","R","S","T","U","V","W","X","Y","Z","a","b","c","d","e","f",
       "g","h","i","j","k","l","m","n","o","p","q","r","s","t","u","v",
       "w","x","y","z","0","1","2","3","4","5","6","7","8","9","+","/" >>

\* Characters a key material string of the model may hold besides the
\* base-64 alphabet.
OtherChars == << "=", "-" >>

IsHexChar(c) == IndexOf(c, HexLower) > 0 \/ IndexOf(c, HexUpper) > 0
HexVal(c) ==
    IF IndexOf(c, HexLower) > 0 THEN IndexOf(c, HexLower) - 1
    ELSE IndexOf(c, HexUpper) - 1

\* /^[A-Fa-f0-9]{64}$/
IsHex64(m) == Len(m) = 64 /\ \A i \in 1..64 : IsHexChar(m[i])

\* /^[A-Za-z0-9+/=]{43,45}$/
IsB64Char(c) == IndexOf(c, B64Alphabet) > 0 \/ c = "="
IsBase64Key(m) == Len(m) \in 43..45 /\ \A i \in 1..Len(m) : IsB64Char(m[i])

\* Buffer.from(key, 'hex')
HexDecode(m) ==
    AsSeq([i \in 1..(Len(m) \div 2) |-> 16 * HexVal(m[2 * i - 1]) + HexVal(m[2 * i])])

\* Buffer.from(key, 'base64'): decoding stops at the first '='; every
\* character before it carries 6 bits, and only whole bytes are emitted.
B64DataLen(m) ==
    IF \E i \in 1..Len(m) : m[i] = "="
    THEN (CHOOSE i \in 1..Len(m) : m[i] = "=" /\ \A j \in 1..(i - 1) : m[j] # "=") - 1
    ELSE Len(m)

B64Val(c) == IndexOf(c, B64Alphabet) - 1

Pow2(n) == IF n = 0 THEN 1 ELSE IF n = 2 THEN 4 ELSE IF n = 4 THEN 16 ELSE 64

\* Byte k (1-based) of the decoded stream: bits 8(k-1) .. 8k-1 of the
\* concatenated 6-bit groups.
B64Byte(m, k) ==
    LET bit0 == 8 * (k - 1)
        c1   == bit0 \div 6 + 1
        off  == bit0 % 6
        v1   == B64Val(m[c1])
        v2   == B64Val(m[c1 + 1])
        hiBits == 6 - off
        hi   == v1 % Pow2(hiBits)
        loBits == 8 - hiBits
        lo   == v2 \div Pow2(6 - loBits)
    IN  hi * Pow2(loBits) + lo

Base64Decode(m) ==
    LET n == B64DataLen(m)
    IN  AsSeq([k \in 1..((n * 6) \div 8) |-> B64Byte(m, k)])

\* crypto.createHash('sha256').update(key).digest(): an abstract 32-byte
\* digest of the characters of the material.
CharCode(c) ==
    IF IndexOf(c, B64Alphabet) > 0 THEN IndexOf(c, B64Alphabet)
    ELSE 64 + IndexOf(c, OtherChars)

Sha256(m) ==
    LET h == 3 * CharCode(m[1]) + 5 * CharCode(m[(Len(m) + 1) \div 2])
               + 11 * CharCode(m[Len(m)]) + 17 * Len(m)
    IN  AsSeq([i \in 1..KEY_LENGTH |-> (h * i + Len(m)) % 256])

Ok(v) == [ok |-> TRUE, val |-> v]
Err(e) == [ok |-> FALSE, err |-> e]

\* function getKey(): the material is the value of VANITY_ENCRYPTION_KEY,
\* the empty string standing for unset or empty.
getKey(material) ==
    IF material = << >> THEN Err("VANITY_ENCRYPTION_KEY not set")
    ELSE IF IsHex64(material) THEN Ok(HexDecode(material))
    ELSE IF IsBase64Key(material) THEN Ok(Base64Decode(material))
    ELSE Ok(Sha256(material))

(***************************************************************************)
(* node:crypto aes-256-gcm, as used by crypto.ts: a stream cipher keyed by *)
(* (key, iv) and an authentication tag over (key, iv, ciphertext).  The    *)
(* tag is ideal: distinct (key, iv, ciphertext) of the model have distinct *)
(* tags.                                                                   *)
(***************************************************************************)

KeyStream(key, iv, i) == (Digest(key) * 7 + Digest(iv) * 3 + 11 * i + 1) % 256

\* cipher.update(plain) ++ cipher.final()
GcmEncrypt(key, iv, plain) ==
    AsSeq([i \in 1..Len(plain) |-> (plain[i] + KeyStream(key, iv, i)) % 256])

\* decipher.update(enc) ++ decipher.final(), once the tag verified
GcmDecrypt(key, iv, enc) ==
    AsSeq([i \in 1..Len(enc) |-> (enc[i] + 256 - KeyStream(key, iv, i)) % 256])

\* cipher.getAuthTag(): 16 bytes
GcmTag(key, iv, enc) ==
    AsSeq([i \in 1..TAG_LENGTH |->
        IF i = 1 THEN Digest(key)
        ELSE IF i = 2 THEN Digest(iv)
        ELSE IF i = 3 THEN Len(enc) % 256
        ELSE IF i - 3 <= Len(enc) THEN enc[i - 3]
        ELSE 0])

\* crypto.createCipheriv / createDecipheriv('aes-256-gcm', key, iv): the key
\* must be 32 bytes and the iv non-empty.
CipherInitError(key, iv) ==
    IF Len(key) # KEY_LENGTH THEN "Invalid key length"
    ELSE IF Len(iv) = 0 THEN "Invalid initialization vector"
    ELSE "none"

\* decipher.setAuthTag(tag) without the authTagLength option: GCM accepts
\* tags of 4, 8 and 12..16 bytes.
ValidGcmTagLength(n) == n = 4 \/ n = 8 \/ (n >= 12 /\ n <= 16)

\* A faulty encryptSecret: the tag is written after the ciphertext.
encryptSecret_TagLast(plain, material, iv) ==
    LET k == getKey(material)
    IN  IF ~k.ok THEN k
        ELSE IF CipherInitError(k.val, iv) # "none" THEN Err(CipherInitError(k.val, iv))
        ELSE LET enc == GcmEncrypt(k.val, iv, plain)
                 tag == GcmTag(k.val, iv, enc)
             IN  Ok(iv \o enc \o tag)

\* export function encryptSecret(plain), with the iv crypto.randomBytes drew
encryptSecret(plain, material, iv) ==
    LET k == getKey(material)
    IN  IF ~k.ok THEN k
        ELSE IF CipherInitError(k.val, iv) # "none" THEN Err(CipherInitError(k.val, iv))
        ELSE LET enc == GcmEncrypt(k.val, iv, plain)
                 tag == GcmTag(k.val, iv, enc)
             IN  Ok(iv \o tag \o enc)

\* export function decryptSecret(blob)
decryptSecret(blob, material) ==
    LET k   == getKey(material)
        iv  == SubArray(blob, 0, IV_LENGTH)
        tag == SubArray(blob, IV_LENGTH, IV_LENGTH + 16)
        enc == SubArray(blob, IV_LENGTH + 16, Len(blob))
    IN  IF ~k.ok THEN k
        ELSE IF CipherInitError(k.val, iv) # "none" THEN Err(CipherInitError(k.val, iv))
        ELSE IF ~ValidGcmTagLength(Len(tag)) THEN Err("Invalid authentication tag length")
        ELSE IF SubArray(GcmTag(k.val, iv, enc), 0, Len(tag)) # tag
             THEN Err("Unsupported state or unable to authenticate data")
        ELSE Ok(GcmDecrypt(k.val, iv, enc))

(***************************************************************************)
(* worker.ts: configuration and the universe of candidates                 *)
(***************************************************************************)

\* const MIN_BUFFER = Number(process.env.VANITY_MIN_BUFFER || '5'), here
\* configured to 2.
MIN_BUFFER == 2

\* const TARGETS: the parsed VANITY_PATTERNS.  DefaultTargets is the default
\* 'SNOW,SB'; ShortTargets is VANITY_PATTERNS=AB,SB.
DefaultTargets == << << "S","N","O","W" >>, << "S","B" >> >>
ShortTargets == << << "A","B" >>, << "S","B" >> >>
SingleTarget == << << "A","B" >> >>
TargetConfigs == { ShortTargets, DefaultTargets }

\* The keypairs Keypair.generate() may return: the base-58 text of the
\* public key and the secret key (64 bytes in the program, 2 here).
KeyIds == { "k1", "k2", "k3", "k4", "k5", "k6" }

PubOf(k) ==
    CASE k = "k1" -> << "7","A","B" >>
      [] k = "k2" -> << "x","A","B" >>
      [] k = "k3" -> << "9","S","B" >>
      [] k = "k4" -> << "y","S","B" >>
      [] k = "k5" -> << "A","B","z" >>
      [] k = "k7" -> << "z","A","B" >>
      [] k = "k8" -> << "z","S","B" >>
      [] OTHER    -> << "x","S","b" >>

SecretOf(k) ==
    CASE k = "k1" -> << 1, 2 >>
      [] k = "k2" -> << 3, 4 >>
      [] k = "k3" -> << 5, 6 >>
      [] k = "k4" -> << 7, 8 >>
      [] k = "k5" -> << 9, 10 >>
      [] k = "k7" -> << 13, 14 >>
      [] k = "k8" -> << 15, 16 >>
      [] OTHER    -> << 11, 12 >>

\* A larger draw of keypairs, with a third match for each of AB and SB.
WideKeyIds == KeyIds \cup { "k7", "k8" }

\* The alphabet of kp.publicKey.toBase58(): no 0, O, I or l.
Base58Alphabet ==
    << "1","2","3","4","5","6","7","8","9",
       "A","B","C","D","E","F","G","H","J","K","L","M","N","P","Q","R","S","T","U","V","W","X","Y","Z",
       "a","b","c","d","e","f","g","h","i","j","k","m","n","o","p","q","r","s","t","u","v","w","x","y","z" >>

IsBase58(str) == \A i \in 1..Len(str) : IndexOf(str[i], Base58Alphabet) > 0

\* The values crypto.randomBytes(IV_LENGTH) may return.
IVs == { Rep(0, IV_LENGTH), Rep(1, IV_LENGTH) }

\* Values of VANITY_ENCRYPTION_KEY.
NoKey == << >>
TestPassphrase == << "t","e","s","t","-","p","a","s","s","p","h","r","a","s","e" >>
WrongPassphrase == << "w","r","o","n","g","-","p","a","s","s","p","h","r","a","s","e" >>
HexKeyLower == AsSeq([i \in 1..64 |-> IF i % 2 = 1 THEN "0" ELSE "a"])
HexKeyUpper == AsSeq([i \in 1..64 |-> IF i % 2 = 1 THEN "0" ELSE "A"])
Base64Key == Rep("Q", 43) \o << "=" >>
Base64Unpadded == Rep("Q", 44)
Materials ==
    { NoKey, TestPassphrase, WrongPassphrase, HexKeyLower, HexKeyUpper, Base64Key,
      Base64Unpadded }

\* The secrets handed to the sealer on its own: byte strings of up to
\* MaxSecretLen bytes.
MaxSecretLen == 2
SecretBytes == { 0, 255 }
Secrets == UNION { [1..n -> SecretBytes] : n \in 0..MaxSecretLen }

\* The key materials a worker process of the model is started with.
WorkerMaterials == { NoKey, TestPassphrase }

Workers == { "w1", "w2" }

\* A faulty matcher: the pattern at the start of the identifier.
matches_Prefix(pub, pattern) == SubArray(pub, 0, Len(pattern)) = pattern

\* function matches(pub, pattern)
matches(pub, pattern) == EndsWith(pub, pattern)

(***************************************************************************)
(* State                                                                   *)
(***************************************************************************)
VARIABLES
    env,         \* process.env.VANITY_ENCRYPTION_KEY
    targets,     \* TARGETS
    store,       \* the rows of table VanityMintPool
    pc,          \* per worker: where main / ensureBuffer stands
    idx,         \* per worker: position of p in TARGETS (for ... of)
    toGenerate,  \* per worker: ensureBuffer's toGenerate
    found,       \* per worker: ensureBuffer's found
    cand,        \* per worker: the matched candidate awaiting its create:
                 \*   [pub, enc], or NoCand
    err,         \* per worker: the error the last ensureBuffer call rejected
                 \*   with, "none" when it returned
    ready,       \* per worker: the count ensureBuffer read
    inserted,    \* history: rows this ensureBuffer call has inserted
    generated,   \* history: this ensureBuffer call generated a keypair
    lastOp,      \* history: how the last store operation of this
                 \*   ensureBuffer call ended: none, ok, P2002, fail
    pending,     \* per worker: a health-check request has arrived at the
                 \*   listening port and is not answered yet
    spin,        \* per worker: parity of the number of candidates the loop
                 \*   has rejected since it last awaited anything
    plain,       \* sealer on its own: the secret handed to encryptSecret
    sealKey,     \* sealer on its own: VANITY_ENCRYPTION_KEY at sealing
    sealed,      \* sealer on its own: what encryptSecret returned
    blob,        \* sealer on its own: the blob handed to decryptSecret
    out,         \* sealer on its own: what decryptSecret returned
    cstep        \* sealer on its own: idle, sealFailed, sealed, tampered,
                 \*   unsealed

workerVars ==
    << pc, idx, toGenerate, found, cand, err, ready, inserted, generated, lastOp,
       pending, spin >>
sealerVars == << plain, sealKey, sealed, blob, out, cstep >>
vars == << env, targets, store, workerVars, sealerVars >>

NoCand == [pub |-> << >>, enc |-> << >>]
None == [ok |-> FALSE, err |-> "not run"]

\* A row of VanityMintPool (the id, a fresh randomUUID(), is left out: the
\* worker never reads it).
Row(pub, enc, pattern) ==
    [publicKey |-> pub, encSecret |-> enc, pattern |-> pattern,
     caseSensitive |-> TRUE, status |-> "ready"]

\* prisma.vanityMintPool.count({ where: { pattern, caseSensitive: true, status: 'ready' } })
ReadyCount(rows, pattern) ==
    Cardinality({ r \in rows : r.pattern = pattern /\ r.caseSensitive /\ r.status = "ready" })

\* A table without the UNIQUE constraint: no create is a duplicate.
IsDuplicate_Never(rows, pub) == FALSE

\* "publicKey" text UNIQUE NOT NULL: a create whose publicKey is present
\* is rejected with P2002.
IsDuplicate(rows, pub) == \E r \in rows : r.publicKey = pub

Pattern(w) == targets[idx[w]]

Max(a, b) == IF a >= b THEN a ELSE b

\* Rows an earlier run of the worker left in the table.
EarlierRow == Row(PubOf("k1"), encryptSecret(SecretOf("k1"), TestPassphrase, Rep(0, IV_LENGTH)).val, << "A","B" >>)
InitStores == { {}, { EarlierRow } }

SealerIdle ==
    /\ plain = << >>
    /\ sealKey = NoKey
    /\ sealed = None
    /\ blob = << >>
    /\ out = None
    /\ cstep = "idle"

WorkersAtStart ==
    /\ pc = [w \in Workers |-> "start"]
    /\ idx = [w \in Workers |-> 1]
    /\ toGenerate = [w \in Workers |-> 0]
    /\ found = [w \in Workers |-> 0]
    /\ cand = [w \in Workers |-> NoCand]
    /\ err = [w \in Workers |-> "none"]
    /\ ready = [w \in Workers |-> 0]
    /\ inserted = [w \in Workers |-> 0]
    /\ generated = [w \in Workers |-> FALSE]
    /\ lastOp = [w \in Workers |-> "none"]
    /\ pending = [w \in Workers |-> FALSE]
    /\ spin = [w \in Workers |-> 0]

InitWith(configs) ==
    /\ env \in WorkerMaterials
    /\ targets \in configs
    /\ store \in InitStores
    /\ WorkersAtStart
    /\ SealerIdle

Init == InitWith(TargetConfigs)

(***************************************************************************)
(* main and ensureBuffer, one process per worker w                         *)
(***************************************************************************)

\* main: http.createServer(...).listen(port) and the one-second wait.
Listen(w) ==
    /\ pc[w] = "start"
    /\ pc' = [pc EXCEPT ![w] = "schema"]
    /\ UNCHANGED << env, targets, store, idx, toGenerate, found, cand, err, ready,
                    inserted, generated, lastOp, sealerVars, pending, spin >>

\* await ensureSchema(): each statement is create-if-absent and its error,
\* if any, is caught and logged; main then enters the loop at the first
\* pattern.
EnsureSchema(w) ==
    /\ pc[w] = "schema"
    /\ pc' = [pc EXCEPT ![w] = "count"]
    /\ idx' = [idx EXCEPT ![w] = 1]
    /\ UNCHANGED << env, targets, store, toGenerate, found, cand, err, ready,
                    inserted, generated, lastOp, sealerVars, pending, spin >>

\* if (ready >= MIN_BUFFER) return
BufferFull(r) == r >= MIN_BUFFER

\* A faulty toGenerate: one row short.
ToGenerate_OffByOne(r) == Max(0, MIN_BUFFER - r - 1)

\* const toGenerate = Math.max(0, MIN_BUFFER - ready)
ToGenerate(r) == Max(0, MIN_BUFFER - r)

\* A faulty ensureBuffer that ignores the count it read and always searches
\* for MIN_BUFFER rows.
CountReady_AlwaysSearches(w) ==
    /\ pc[w] = "count"
    /\ ready' = [ready EXCEPT ![w] = ReadyCount(store, targets[idx[w]])]
    /\ pc' = [pc EXCEPT ![w] = "search"]
    /\ toGenerate' = [toGenerate EXCEPT ![w] = MIN_BUFFER]
    /\ found' = [found EXCEPT ![w] = 0]
    /\ err' = [err EXCEPT ![w] = "none"]
    /\ lastOp' = [lastOp EXCEPT ![w] = "ok"]
    /\ UNCHANGED << env, targets, store, idx, cand, inserted, generated, sealerVars, pending, spin >>

\* ensureBuffer(pattern), up to the loop: the count resolves.
CountReady(w) ==
    /\ pc[w] = "count"
    /\ LET r == ReadyCount(store, Pattern(w))
       IN  /\ ready' = [ready EXCEPT ![w] = r]
           /\ IF BufferFull(r)
              THEN /\ pc' = [pc EXCEPT ![w] = "returned"]
                   /\ toGenerate' = [toGenerate EXCEPT ![w] = 0]
              ELSE /\ pc' = [pc EXCEPT ![w] = "search"]
                   /\ toGenerate' = [toGenerate EXCEPT ![w] = ToGenerate(r)]
    /\ found' = [found EXCEPT ![w] = 0]
    /\ err' = [err EXCEPT ![w] = "none"]
    /\ lastOp' = [lastOp EXCEPT ![w] = "ok"]
    /\ UNCHANGED << env, targets, store, idx, cand, inserted, generated, sealerVars, pending, spin >>

\* ensureBuffer(pattern): the count rejects (a store failure), and with it
\* ensureBuffer.
CountFails(w) ==
    /\ pc[w] = "count"
    /\ pc' = [pc EXCEPT ![w] = "threw"]
    /\ err' = [err EXCEPT ![w] = "StoreError"]
    /\ lastOp' = [lastOp EXCEPT ![w] = "fail"]
    /\ UNCHANGED << env, targets, store, idx, toGenerate, found, cand, ready,
                    inserted, generated, sealerVars, pending, spin >>

\* A faulty loop condition: one row more than asked for.
LoopCond_OneMore(w) == found[w] <= toGenerate[w]

\* while (found < toGenerate)
LoopCond(w) == found[w] < toGenerate[w]

\* The loop condition is false: ensureBuffer returns.
LoopExit(w) ==
    /\ pc[w] = "search"
    /\ ~LoopCond(w)
    /\ pc' = [pc EXCEPT ![w] = "returned"]
    /\ UNCHANGED << env, targets, store, idx, toGenerate, found, cand, err, ready,
                    inserted, generated, lastOp, sealerVars, pending, spin >>

\* One iteration whose candidate does not match: nothing but the next
\* iteration follows, without the loop awaiting anything.
GenerateMiss(w, k) ==
    /\ pc[w] = "search"
    /\ LoopCond(w)
    /\ ~matches(PubOf(k), Pattern(w))
    /\ generated' = [generated EXCEPT ![w] = TRUE]
    /\ spin' = [spin EXCEPT ![w] = 1 - spin[w]]
    /\ UNCHANGED << env, targets, store, pc, idx, toGenerate, found, cand, err, ready,
                    inserted, lastOp, sealerVars, pending >>

\* A faulty ensureBuffer that hands the raw secret key to the create.
SealCandidate_Raw(k, iv) == Ok(SecretOf(k))

\* const enc = encryptSecret(kp.secretKey)
SealCandidate(k, iv) == encryptSecret(SecretOf(k), env, iv)

\* One iteration whose candidate matches: it is sealed, and either the
\* sealer throws (out of ensureBuffer) or the create is awaited.
GenerateMatch(w, k, iv) ==
    /\ pc[w] = "search"
    /\ LoopCond(w)
    /\ matches(PubOf(k), Pattern(w))
    /\ generated' = [generated EXCEPT ![w] = TRUE]
    /\ LET e == SealCandidate(k, iv)
       IN  IF e.ok
           THEN /\ cand' = [cand EXCEPT ![w] = [pub |-> PubOf(k), enc |-> e.val]]
                /\ pc' = [pc EXCEPT ![w] = "create"]
                /\ err' = err
           ELSE /\ cand' = cand
                /\ pc' = [pc EXCEPT ![w] = "threw"]
                /\ err' = [err EXCEPT ![w] = e.err]
    /\ spin' = [spin EXCEPT ![w] = 0]
    /\ UNCHANGED << env, targets, store, idx, toGenerate, found, ready,
                    inserted, lastOp, sealerVars, pending >>

\* A faulty create that replaces the rows of the pattern by the new row.
CreateInserts_Overwrites(w) ==
    /\ pc[w] = "create"
    /\ ~(\E r \in store : r.publicKey = cand[w].pub)
    /\ store' = { r \in store : r.pattern # targets[idx[w]] }
                    \cup { [publicKey |-> cand[w].pub, encSecret |-> cand[w].enc,
                            pattern |-> targets[idx[w]], caseSensitive |-> TRUE,
                            status |-> "ready"] }
    /\ found' = [found EXCEPT ![w] = found[w] + 1]
    /\ inserted' = [inserted EXCEPT ![w] = inserted[w] + 1]
    /\ lastOp' = [lastOp EXCEPT ![w] = "ok"]
    /\ cand' = [cand EXCEPT ![w] = [pub |-> << >>, enc |-> << >>]]
    /\ pc' = [pc EXCEPT ![w] = "search"]
    /\ UNCHANGED << env, targets, idx, toGenerate, err, ready, generated, sealerVars, pending, spin >>

\* await prisma.vanityMintPool.create({ data }) resolves: the row is in the
\* table and found += 1.
CreateInserts(w) ==
    /\ pc[w] = "create"
    /\ ~IsDuplicate(store, cand[w].pub)
    /\ store' = store \cup { Row(cand[w].pub, cand[w].enc, Pattern(w)) }
    /\ found' = [found EXCEPT ![w] = found[w] + 1]
    /\ inserted' = [inserted EXCEPT ![w] = inserted[w] + 1]
    /\ lastOp' = [lastOp EXCEPT ![w] = "ok"]
    /\ cand' = [cand EXCEPT ![w] = NoCand]
    /\ pc' = [pc EXCEPT ![w] = "search"]
    /\ UNCHANGED << env, targets, idx, toGenerate, err, ready, generated, sealerVars, pending, spin >>

\* A faulty catch that counts a rejected create as found.
CreateDuplicate_CountsFound(w) ==
    /\ pc[w] = "create"
    /\ \E r \in store : r.publicKey = cand[w].pub
    /\ found' = [found EXCEPT ![w] = found[w] + 1]
    /\ lastOp' = [lastOp EXCEPT ![w] = "P2002"]
    /\ cand' = [cand EXCEPT ![w] = NoCand]
    /\ pc' = [pc EXCEPT ![w] = "search"]
    /\ UNCHANGED << env, targets, store, idx, toGenerate, err, ready,
                    inserted, generated, sealerVars, pending, spin >>

\* The create rejects with code P2002 (unique violation): caught, skipped.
CreateDuplicate(w) ==
    /\ pc[w] = "create"
    /\ IsDuplicate(store, cand[w].pub)
    /\ lastOp' = [lastOp EXCEPT ![w] = "P2002"]
    /\ cand' = [cand EXCEPT ![w] = NoCand]
    /\ pc' = [pc EXCEPT ![w] = "search"]
    /\ UNCHANGED << env, targets, store, idx, toGenerate, found, err, ready,
                    inserted, generated, sealerVars, pending, spin >>

\* A faulty catch that swallows every error of the create.
CreateFails_Swallowed(w) ==
    /\ pc[w] = "create"
    /\ lastOp' = [lastOp EXCEPT ![w] = "fail"]
    /\ cand' = [cand EXCEPT ![w] = NoCand]
    /\ pc' = [pc EXCEPT ![w] = "search"]
    /\ UNCHANGED << env, targets, store, idx, toGenerate, found, err, ready,
                    inserted, generated, sealerVars, pending, spin >>

\* The create rejects with another code: if (e?.code !== 'P2002') throw e.
CreateFails(w) ==
    /\ pc[w] = "create"
    /\ lastOp' = [lastOp EXCEPT ![w] = "fail"]
    /\ cand' = [cand EXCEPT ![w] = NoCand]
    /\ pc' = [pc EXCEPT ![w] = "threw"]
    /\ err' = [err EXCEPT ![w] = "StoreError"]
    /\ UNCHANGED << env, targets, store, idx, toGenerate, found, ready,
                    inserted, generated, sealerVars, pending, spin >>

\* A faulty main without the try/catch around ensureBuffer: an error ends
\* the cycle, and the loop with it.
Advance_StopsOnError(w) ==
    /\ pc[w] \in { "returned", "threw" }
    /\ toGenerate' = [toGenerate EXCEPT ![w] = 0]
    /\ found' = [found EXCEPT ![w] = 0]
    /\ ready' = [ready EXCEPT ![w] = 0]
    /\ inserted' = [inserted EXCEPT ![w] = 0]
    /\ generated' = [generated EXCEPT ![w] = FALSE]
    /\ lastOp' = [lastOp EXCEPT ![w] = "none"]
    /\ IF pc[w] = "threw"
       THEN /\ idx' = idx
            /\ pc' = [pc EXCEPT ![w] = "exited"]
       ELSE IF idx[w] < Len(targets)
       THEN /\ idx' = [idx EXCEPT ![w] = idx[w] + 1]
            /\ pc' = [pc EXCEPT ![w] = "count"]
       ELSE /\ idx' = idx
            /\ pc' = [pc EXCEPT ![w] = "sleep"]
    /\ UNCHANGED << env, targets, store, cand, err, sealerVars, pending, spin >>

\* A faulty main that does not await ensureBuffer: it goes on to the next
\* pattern while the fill is still searching.
Advance_NoAwait(w) ==
    /\ pc[w] \in { "search", "returned", "threw" }
    /\ toGenerate' = [toGenerate EXCEPT ![w] = 0]
    /\ found' = [found EXCEPT ![w] = 0]
    /\ ready' = [ready EXCEPT ![w] = 0]
    /\ inserted' = [inserted EXCEPT ![w] = 0]
    /\ generated' = [generated EXCEPT ![w] = FALSE]
    /\ lastOp' = [lastOp EXCEPT ![w] = "none"]
    /\ spin' = [spin EXCEPT ![w] = 0]
    /\ IF idx[w] < Len(targets)
       THEN /\ idx' = [idx EXCEPT ![w] = idx[w] + 1]
            /\ pc' = [pc EXCEPT ![w] = "count"]
       ELSE /\ idx' = idx
            /\ pc' = [pc EXCEPT ![w] = "sleep"]
    /\ UNCHANGED << env, targets, store, cand, err, sealerVars, pending >>

\* main: try { await ensureBuffer(p) } catch (e) { console.error(...) },
\* then the next p of TARGETS, or the sleep after the last.  err keeps
\* what the catch logged until the next ensureBuffer call.
Advance(w) ==
    /\ pc[w] \in { "returned", "threw" }
    /\ toGenerate' = [toGenerate EXCEPT ![w] = 0]
    /\ found' = [found EXCEPT ![w] = 0]
    /\ ready' = [ready EXCEPT ![w] = 0]
    /\ inserted' = [inserted EXCEPT ![w] = 0]
    /\ generated' = [generated EXCEPT ![w] = FALSE]
    /\ lastOp' = [lastOp EXCEPT ![w] = "none"]
    /\ IF idx[w] < Len(targets)
       THEN /\ idx' = [idx EXCEPT ![w] = idx[w] + 1]
            /\ pc' = [pc EXCEPT ![w] = "count"]
       ELSE /\ idx' = idx
            /\ pc' = [pc EXCEPT ![w] = "sleep"]
    /\ UNCHANGED << env, targets, store, cand, err, sealerVars, pending, spin >>

\* await new Promise(r => setTimeout(r, 2000)), then while (true) again.
Sleep(w) ==
    /\ pc[w] = "sleep"
    /\ pc' = [pc EXCEPT ![w] = "count"]
    /\ idx' = [idx EXCEPT ![w] = 1]
    /\ UNCHANGED << env, targets, store, toGenerate, found, cand, err, ready,
                    inserted, generated, lastOp, sealerVars, pending, spin >>

\* The reservation workflow, outside the worker, claims a ready row.
Reserve ==
    /\ \E r \in store :
          /\ r.status = "ready"
          /\ store' = (store \ { r }) \cup { [r EXCEPT !.status = "reserved"] }
    /\ UNCHANGED << env, targets, workerVars, sealerVars >>

WorkerStep(w) ==
    \/ Listen(w)
    \/ EnsureSchema(w)
    \/ CountReady(w)
    \/ CountFails(w)
    \/ LoopExit(w)
    \/ \E k \in KeyIds : GenerateMiss(w, k)
    \/ \E k \in KeyIds, iv \in IVs : GenerateMatch(w, k, iv)
    \/ CreateInserts(w)
    \/ CreateDuplicate(w)
    \/ CreateFails(w)
    \/ Advance(w)
    \/ Sleep(w)

\* One controller process, beside the reservation workflow that shares its
\* table.
Next ==
    \/ WorkerStep("w1")
    \/ Reserve

Spec == Init /\ [][Next]_vars

\* A single controller and no other writer to the table.
NextSolo == WorkerStep("w1")

SpecSolo == Init /\ [][NextSolo]_vars

\* Several worker instances on one table (VANITY_PATTERNS=AB), beside the
\* reservation workflow.
InitFleet == InitWith({ SingleTarget })

NextFleet ==
    \/ \E w \in Workers : WorkerStep(w)
    \/ Reserve

SpecFleet == InitFleet /\ [][NextFleet]_vars

(***************************************************************************)
(* The process on its event loop: one controller with working key material *)
(* and a store that does not fail, and health-check requests arriving at   *)
(* its port.                                                               *)
(***************************************************************************)

\* Where main stands while the event loop is free to run other callbacks:
\* at an await whose promise is not settled yet (the wait before
\* ensureSchema, the count, the create, the sleep).  In the while loop of
\* ensureBuffer, and in the synchronous code after a settled promise, it
\* is not.
AtAwait(w) == pc[w] \in { "schema", "count", "create", "sleep" }

\* A health-check request arrives at the listening port.
Request(w) ==
    /\ pc[w] \notin { "start", "exited" }
    /\ ~pending[w]
    /\ pending' = [pending EXCEPT ![w] = TRUE]
    /\ UNCHANGED << env, targets, store, pc, idx, toGenerate, found, cand, err, ready,
                    inserted, generated, lastOp, spin, sealerVars >>

\* http.createServer((_, res) => { res.writeHead(200, ...); res.end(...) }):
\* the handler runs when the event loop gets to it.
Respond(w) ==
    /\ pending[w]
    /\ AtAwait(w)
    /\ pending' = [pending EXCEPT ![w] = FALSE]
    /\ UNCHANGED << env, targets, store, pc, idx, toGenerate, found, cand, err, ready,
                    inserted, generated, lastOp, spin, sealerVars >>

\* The generator can draw a match the table does not hold yet: when
\* GenerateFreshMatch is enabled.
CanDrawFresh(w) ==
    /\ pc[w] = "search"
    /\ LoopCond(w)
    /\ \E k \in WideKeyIds : matches(PubOf(k), Pattern(w)) /\ ~IsDuplicate(store, PubOf(k))

\* The candidate is a match the table does not hold yet.
GenerateFreshMatch(w) ==
    \E k \in WideKeyIds, iv \in IVs :
        /\ ~IsDuplicate(store, PubOf(k))
        /\ GenerateMatch(w, k, iv)

\* main and ensureBuffer with a store that does not fail.
RunStep(w) ==
    \/ Listen(w)
    \/ EnsureSchema(w)
    \/ CountReady(w)
    \/ LoopExit(w)
    \/ \E k \in WideKeyIds : GenerateMiss(w, k)
    \/ \E k \in WideKeyIds, iv \in IVs : GenerateMatch(w, k, iv)
    \/ CreateInserts(w)
    \/ CreateDuplicate(w)
    \/ Advance(w)
    \/ Sleep(w)

InitFair ==
    /\ env = TestPassphrase
    /\ targets \in TargetConfigs
    /\ store \in InitStores
    /\ WorkersAtStart
    /\ SealerIdle

NextFair ==
    \/ RunStep("w1")
    \/ Request("w1")
    \/ Respond("w1")

\* The process keeps running; the event loop runs a ready callback when
\* main is at an await; the search is fair: if the generator can again and
\* again draw a match the table does not hold, it does so again and again
\* (strong fairness of GenerateFreshMatch, with its enabling condition
\* written out).
Fairness ==
    /\ WF_vars(RunStep("w1"))
    /\ SF_vars(Respond("w1"))
    /\ []<>CanDrawFresh("w1") => []<><<GenerateFreshMatch("w1")>>_vars

SpecFair == InitFair /\ [][NextFair]_vars /\ Fairness

\* Several worker instances replenishing one pattern (VANITY_PATTERNS=AB) on
\* one table, with working key material and a store that does not fail.
InitRace ==
    /\ env = TestPassphrase
    /\ targets = SingleTarget
    /\ store \in InitStores
    /\ WorkersAtStart
    /\ SealerIdle

NextRace == \E w \in Workers : RunStep(w)

SpecRace == InitRace /\ [][NextRace]_vars

(***************************************************************************)
(* The variant of the worker whose ensureSchema has no try/catch            *)
(* (src/unnamed/part_001); its ensureBuffer and its loop are those above.  *)
(***************************************************************************)

\* await ensureSchema() with a statement that fails: ensureSchema rejects,
\* main rejects, and main().catch logs and calls process.exit(1).
EnsureSchemaRejects(w) ==
    /\ pc[w] = "schema"
    /\ pc' = [pc EXCEPT ![w] = "exited"]
    /\ err' = [err EXCEPT ![w] = "StoreError"]
    /\ UNCHANGED << env, targets, store, idx, toGenerate, found, cand, ready,
                    inserted, generated, lastOp, sealerVars, pending, spin >>

NextBare ==
    \/ WorkerStep("w1")
    \/ EnsureSchemaRejects("w1")

SpecBare == Init /\ [][NextBare]_vars

(***************************************************************************)
(* The sealer on its own: a secret is sealed, the blob is stored, possibly *)
(* damaged, the process possibly restarted with other key material, and    *)
(* the blob is unsealed.                                                   *)
(***************************************************************************)

InitSealer ==
    /\ env \in Materials
    /\ targets = ShortTargets
    /\ store = {}
    /\ WorkersAtStart
    /\ plain \in Secrets
    /\ sealKey = NoKey
    /\ sealed = None
    /\ blob = << >>
    /\ out = None
    /\ cstep = "idle"

\* encryptSecret(plain) is called; iv is what crypto.randomBytes returns.
Seal(iv) ==
    /\ cstep = "idle"
    /\ sealKey' = env
    /\ sealed' = encryptSecret(plain, env, iv)
    /\ IF sealed'.ok
       THEN blob' = sealed'.val /\ cstep' = "sealed"
       ELSE blob' = blob /\ cstep' = "sealFailed"
    /\ UNCHANGED << env, targets, store, workerVars, plain, out >>

\* The stored blob is damaged: byte i (0-based) is changed by d.
FlipByte(i, d) ==
    /\ cstep = "sealed"
    /\ i < Len(blob)
    /\ blob' = [blob EXCEPT ![i + 1] = (@ + d) % 256]
    /\ cstep' = "tampered"
    /\ UNCHANGED << env, targets, store, workerVars, plain, sealKey, sealed, out >>

\* The stored blob is damaged: only its first n bytes are left.
Truncate(n) ==
    /\ cstep = "sealed"
    /\ n < Len(blob)
    /\ blob' = SubArray(blob, 0, n)
    /\ cstep' = "tampered"
    /\ UNCHANGED << env, targets, store, workerVars, plain, sealKey, sealed, out >>

\* The process is restarted with another VANITY_ENCRYPTION_KEY.
Rekey(m) ==
    /\ cstep \in { "sealed", "tampered" }
    /\ env = sealKey
    /\ m # env
    /\ env' = m
    /\ UNCHANGED << targets, store, workerVars, sealerVars >>

\* decryptSecret(blob) is called.
Unseal ==
    /\ cstep \in { "sealed", "tampered" }
    /\ out' = decryptSecret(blob, env)
    /\ cstep' = "unsealed"
    /\ UNCHANGED << env, targets, store, workerVars, plain, sealKey, sealed, blob >>

FlipDeltas == { 1, 128 }

NextSealer ==
    \/ \E iv \in IVs : Seal(iv)
    \/ \E i \in 0..(IV_LENGTH + TAG_LENGTH + MaxSecretLen), d \in FlipDeltas : FlipByte(i, d)
    \/ \E n \in 0..(IV_LENGTH + TAG_LENGTH + MaxSecretLen) : Truncate(n)
    \/ \E m \in Materials : Rekey(m)
    \/ Unseal

SpecSealer == InitSealer /\ [][NextSealer]_vars

(***************************************************************************)
(* Properties                                                              *)
(***************************************************************************)

\* The step is one of w's ensureBuffer call inserting a row.
InsertsRow(w) == inserted'[w] = inserted[w] + 1

RowsOf(rows, pattern) == { r \in rows : r.pattern = pattern }

\* C1: with a single controller and no other writer, an ensureBuffer call
\* that read r < MIN_BUFFER ready rows and returns has inserted exactly
\* MIN_BUFFER - r rows and leaves exactly MIN_BUFFER ready rows; every row
\* it inserts is new, 'ready', caseSensitive, of the given pattern, with a
\* publicKey that ends in the pattern, and the table grows by nothing else.
C1_Returned ==
    \A w \in Workers :
        (pc[w] = "returned" /\ ready[w] < MIN_BUFFER) =>
            /\ inserted[w] = MIN_BUFFER - ready[w]
            /\ ReadyCount(store, Pattern(w)) = MIN_BUFFER

C1_Insert ==
    /\ \A w \in Workers :
          InsertsRow(w) =>
              \E r \in store' \ store :
                  /\ store' = store \cup { r }
                  /\ r.status = "ready"
                  /\ r.caseSensitive
                  /\ r.pattern = Pattern(w)
                  /\ EndsWith(r.publicKey, Pattern(w))
    /\ store' # store => \E w \in Workers : InsertsRow(w)

C1_FillsExactly == [](C1_Returned) /\ [][C1_Insert]_vars

C1_Witness ==
    \E w \in Workers :
        /\ pc[w] = "returned"
        /\ ready[w] = 0
        /\ inserted[w] = MIN_BUFFER
        /\ ReadyCount(store, Pattern(w)) = MIN_BUFFER

\* C2: an ensureBuffer call that read a ready count >= MIN_BUFFER returns
\* having generated no keypair, sealed nothing and attempted no insert, and
\* the step in which it reads the count and returns leaves the table as it
\* is.
C2_Quiet ==
    \A w \in Workers :
        (pc[w] \in { "search", "create", "returned", "threw" } /\ BufferFull(ready[w])) =>
            /\ pc[w] = "returned"
            /\ ~generated[w]
            /\ cand[w] = NoCand
            /\ inserted[w] = 0
            /\ found[w] = 0
            /\ lastOp[w] = "ok"

C2_ReturnStep ==
    \A w \in Workers :
        (pc[w] = "count" /\ pc'[w] = "returned") =>
            /\ BufferFull(ready'[w])
            /\ store' = store

C2_FullBufferIsLeftAlone == [](C2_Quiet) /\ [][C2_ReturnStep]_vars

C2_Witness ==
    \E w \in Workers :
        /\ pc[w] = "returned"
        /\ ready[w] >= MIN_BUFFER
        /\ ~generated[w]

\* The step is a create of w's that the table answers with P2002.
RejectsDuplicate(w) == pc[w] = "create" /\ pc'[w] = "search" /\ lastOp'[w] = "P2002"

\* C3: with several workers on one table the table never holds two rows
\* with one publicKey, and a create for a publicKey that is present is
\* answered with P2002 and leaves the table unchanged.
C3_OneRowPerKey ==
    \A r1 \in store, r2 \in store : r1.publicKey = r2.publicKey => r1 = r2

C3_Rejected ==
    \A w \in Workers :
        /\ (pc[w] = "create" /\ IsDuplicate(store, cand[w].pub) /\ pc'[w] # "create") =>
              /\ lastOp'[w] \in { "P2002", "fail" }
              /\ store' = store
        /\ RejectsDuplicate(w) =>
              /\ IsDuplicate(store, cand[w].pub)
              /\ store' = store

C3_UniquePublicKey == [](C3_OneRowPerKey) /\ [][C3_Rejected]_vars

\* Two workers raced for one publicKey: the only row of the table was
\* inserted by v in its current call, and w's create was rejected.
C3_Witness ==
    \E w \in Workers, v \in Workers :
        /\ w # v
        /\ lastOp[w] = "P2002"
        /\ pc[w] = "search"
        /\ inserted[w] = 0
        /\ inserted[v] = 1
        /\ Cardinality(store) = 1

\* C4: a create rejected with P2002 leaves found as it is, keeps the loop
\* going (the next iteration follows) and raises nothing; found always
\* equals the number of rows the call has inserted.
C4_FoundIsInserted == \A w \in Workers : found[w] = inserted[w]

C4_Skip ==
    \A w \in Workers :
        RejectsDuplicate(w) =>
            /\ found'[w] = found[w]
            /\ pc'[w] = "search"
            /\ err'[w] = "none"

C4_DuplicateIsSkipped == [](C4_FoundIsInserted) /\ [][C4_Skip]_vars

\* A create was just rejected and the loop goes on.
C4_Witness ==
    \E w \in Workers :
        /\ lastOp[w] = "P2002"
        /\ pc[w] = "search"
        /\ LoopCond(w)

\* C5: a store failure other than P2002 (the count, or a create) ends the
\* ensureBuffer call in that step with the error on its way to main; the
\* table is as it was, the call does nothing more, and what it inserted
\* before is still there.
C5_Thrown ==
    \A w \in Workers :
        lastOp[w] = "fail" => (pc[w] = "threw" /\ err[w] = "StoreError" /\ cand[w] = NoCand)

C5_Abort ==
    \A w \in Workers :
        /\ (lastOp'[w] = "fail" /\ lastOp[w] # "fail") =>
              /\ store' = store
              /\ inserted'[w] = inserted[w]
        /\ (pc[w] = "threw" /\ pc'[w] # "threw") =>
              /\ pc'[w] \in { "count", "sleep" }
              /\ store' = store

C5_StoreFailurePropagates == [](C5_Thrown) /\ [][C5_Abort]_vars

\* A create failed after the same call had inserted a row, which is still
\* in the table.
C5_Witness ==
    \E w \in Workers :
        /\ lastOp[w] = "fail"
        /\ pc[w] = "threw"
        /\ inserted[w] > 0
        /\ Cardinality(RowsOf(store, Pattern(w))) >= inserted[w]

\* C6: main's loop survives an ensureBuffer that threw: the step after it
\* is the next pattern of the cycle (or the sleep after the last pattern),
\* the step after the sleep is the first pattern again, and the process
\* never exits.
C6_NeverExits == \A w \in Workers : pc[w] # "exited"

C6_Continue ==
    \A w \in Workers :
        /\ (pc[w] = "threw" /\ pc'[w] # "threw") =>
              IF idx[w] < Len(targets)
              THEN pc'[w] = "count" /\ idx'[w] = idx[w] + 1
              ELSE pc'[w] = "sleep" /\ idx'[w] = idx[w]
        /\ (pc[w] = "sleep" /\ pc'[w] # "sleep") =>
              (pc'[w] = "count" /\ idx'[w] = 1)
        /\ (pc[w] = "count" /\ pc'[w] # "count") => idx'[w] = idx[w]

C6_LoopSurvivesErrors == [](C6_NeverExits) /\ [][C6_Continue]_vars

\* The second pattern is being evaluated right after the first one's
\* ensureBuffer threw.
C6_Witness ==
    \E w \in Workers :
        /\ pc[w] = "count"
        /\ idx[w] = 2
        /\ err[w] # "none"

\* C7 (as claimed): without VANITY_ENCRYPTION_KEY the process is gone
\* before any pattern is evaluated.
C7_FailsFastWithoutKey ==
    env = NoKey => \A w \in Workers : pc[w] \in { "start", "schema", "exited" }

\* Without VANITY_ENCRYPTION_KEY the worker has evaluated every pattern of a
\* cycle, logged the sealer's error, and sleeps before the next cycle.
C7_Witness ==
    /\ env = NoKey
    /\ pc["w1"] = "sleep"
    /\ err["w1"] = "VANITY_ENCRYPTION_KEY not set"

\* The key material the deployment runs with, when it has any.
DeployedKey == TestPassphrase

\* b is what encryptSecret returns for k's secret key under material m.
IsSealOf(b, k, m) == \E iv \in IVs : encryptSecret(SecretOf(k), m, iv) = Ok(b)

\* C8: every row holds in encSecret the seal of the secret key of the
\* keypair of its publicKey, never the raw secret key; a candidate is
\* sealed before its create is attempted, and the create writes that seal.
C8_Rows ==
    \A r \in store :
        \E k \in KeyIds :
            /\ PubOf(k) = r.publicKey
            /\ IsSealOf(r.encSecret, k, DeployedKey)
            /\ r.encSecret # SecretOf(k)
            /\ decryptSecret(r.encSecret, DeployedKey) = Ok(SecretOf(k))

C8_Candidate ==
    \A w \in Workers :
        pc[w] = "create" =>
            \E k \in KeyIds :
                /\ PubOf(k) = cand[w].pub
                /\ IsSealOf(cand[w].enc, k, env)
                /\ cand[w].enc # SecretOf(k)

C8_Write ==
    \A w \in Workers :
        InsertsRow(w) =>
            /\ pc[w] = "create"
            /\ \E r \in store' \ store :
                  r.publicKey = cand[w].pub /\ r.encSecret = cand[w].enc

C8_OnlySealedSecretsStored == [](C8_Rows /\ C8_Candidate) /\ [][C8_Write]_vars

C8_Witness ==
    \E w \in Workers :
        /\ inserted[w] > 0
        /\ \E r \in store : r.publicKey = PubOf("k2") /\ r.encSecret # SecretOf("k2")

\* The parts of a blob as decryptSecret reads them.
IvOf(b) == SubArray(b, 0, IV_LENGTH)
TagOf(b) == SubArray(b, IV_LENGTH, IV_LENGTH + TAG_LENGTH)
EncOf(b) == SubArray(b, IV_LENGTH + TAG_LENGTH, Len(b))

\* C9: a blob encryptSecret returned, unsealed as it is under the same key
\* material, gives back the secret; the blob is the nonce (12 bytes), the
\* tag (16 bytes) and the ciphertext, in that order.
C9_RoundTrip ==
    /\ (cstep = "unsealed" /\ sealed.ok /\ blob = sealed.val /\ env = sealKey) =>
          out = Ok(plain)
    /\ sealed.ok =>
          LET b   == sealed.val
              key == getKey(sealKey).val
          IN  /\ Len(b) = IV_LENGTH + TAG_LENGTH + Len(plain)
              /\ IvOf(b) \in IVs
              /\ EncOf(b) = GcmEncrypt(key, IvOf(b), plain)
              /\ TagOf(b) = GcmTag(key, IvOf(b), EncOf(b))

C9_Witness ==
    /\ cstep = "unsealed"
    /\ sealed.ok
    /\ blob = sealed.val
    /\ env = sealKey
    /\ out.ok
    /\ Len(plain) = MaxSecretLen
    /\ plain[1] = 255

\* C10 (as claimed): decryptSecret returns no plaintext for a blob whose
\* tag or ciphertext is not the one encryptSecret produced, nor under key
\* material that gives another key than the one the blob was sealed with.
C10_TamperIsRejected ==
    (/\ cstep = "unsealed"
     /\ sealed.ok
     /\ \/ TagOf(blob) # TagOf(sealed.val)
        \/ EncOf(blob) # EncOf(sealed.val)
        \/ getKey(env) # getKey(sealKey)) => ~out.ok

\* The seal of the empty secret, cut inside its tag, is unsealed to a
\* plaintext.
C10_Witness ==
    /\ cstep = "unsealed"
    /\ sealed.ok
    /\ env = sealKey
    /\ Len(blob) < IV_LENGTH + TAG_LENGTH
    /\ TagOf(blob) # TagOf(sealed.val)
    /\ out = Ok(<< >>)

\* The key material gives a key the cipher takes.
KeyIsUsable(m) == getKey(m).ok /\ CipherInitError(getKey(m).val, Rep(0, IV_LENGTH)) = "none"

AuthenticationError == "Unsupported state or unable to authenticate data"

\* C11 (as claimed): a blob shorter than the 28 bytes of nonce and tag is
\* refused by decryptSecret with an error that is not the authentication
\* error of a tag mismatch: no tag verification is attempted on it.
C11_ShortBlobIsFormatError ==
    (/\ cstep = "unsealed"
     /\ KeyIsUsable(env)
     /\ Len(blob) < IV_LENGTH + TAG_LENGTH) =>
        /\ ~out.ok
        /\ out.err # AuthenticationError

\* A blob cut inside its tag went through the tag verification and failed
\* it, as a tampered blob of full length does.
C11_Witness ==
    /\ cstep = "unsealed"
    /\ KeyIsUsable(env)
    /\ Len(blob) = IV_LENGTH + 8
    /\ plain # << >>
    /\ out = Err(AuthenticationError)

\* The generator can draw a candidate that matches the pattern.
Matchable(pattern) == \E k \in WideKeyIds : matches(PubOf(k), pattern)

\* C12: with a fair search and a store that does not fail, an ensureBuffer
\* call in its search loop, for a pattern that candidates can match,
\* eventually returns; the loop is left only by its return, and only with
\* found = toGenerate: nothing ends it earlier.
C12_Returns ==
    (pc["w1"] \in { "search", "create" } /\ Matchable(Pattern("w1"))) ~> (pc["w1"] = "returned")

C12_OnlyExit ==
    \A w \in Workers :
        /\ (pc[w] \in { "search", "create" }) => (pc'[w] \in { "search", "create", "returned" })
        /\ (pc[w] \in { "search", "create" } /\ pc'[w] = "returned") =>
              /\ found[w] = toGenerate[w]
              /\ inserted[w] = toGenerate[w]
              /\ toGenerate[w] > 0

C12_SearchTerminates == C12_Returns /\ [][C12_OnlyExit]_vars

\* A call that searched for MIN_BUFFER rows, rejected candidates on the way
\* and returned.
C12_Witness ==
    /\ pc["w1"] = "returned"
    /\ generated["w1"]
    /\ toGenerate["w1"] = MIN_BUFFER
    /\ inserted["w1"] = MIN_BUFFER
    /\ idx["w1"] = 2

\* C13: one controller works on one pattern at a time, in the order of
\* TARGETS: outside an ensureBuffer call nothing of a fill is left; the
\* next pattern's count is reached only from a call that returned or threw
\* (or from the start and the sleep, at the first pattern); idx moves by one
\* or back to the first; the sleep follows only the last pattern of the
\* cycle; and a row is inserted only for the pattern the call is for.
C13_NoFillOutsideCall ==
    \A w \in Workers :
        /\ idx[w] \in 1..Len(targets)
        /\ pc[w] \in { "start", "schema", "count", "sleep" } =>
              (toGenerate[w] = 0 /\ found[w] = 0 /\ cand[w] = NoCand /\ spin[w] = 0)
        /\ pc[w] \in { "search", "create" } => toGenerate[w] > 0

C13_Order ==
    \A w \in Workers :
        /\ (pc'[w] = "count" /\ pc[w] # "count") =>
              \/ pc[w] \in { "schema", "sleep" } /\ idx'[w] = 1
              \/ pc[w] \in { "returned", "threw" } /\ idx'[w] = idx[w] + 1
        /\ (idx'[w] # idx[w]) => (pc'[w] = "count" /\ pc[w] # "count")
        /\ (pc'[w] = "sleep" /\ pc[w] # "sleep") =>
              (pc[w] \in { "returned", "threw" } /\ idx[w] = Len(targets))
        /\ InsertsRow(w) =>
              (idx'[w] = idx[w] /\ \A r \in store' \ store : r.pattern = targets[idx[w]])

C13_PatternsInSequence == [](C13_NoFillOutsideCall) /\ [][C13_Order]_vars

\* The second pattern's count is about to be read after the first
\* pattern's fill ran to its end.
C13_Witness ==
    \E w \in Workers :
        /\ pc[w] = "count"
        /\ idx[w] = 2
        /\ err[w] = "none"
        /\ Cardinality(RowsOf(store, targets[1])) >= MIN_BUFFER
        /\ RowsOf(store, targets[2]) = {}

\* C14 (as claimed): once the port is bound, a health-check request that
\* has arrived is eventually answered, whatever the search is doing.
C14_HealthIsAnswered == pending["w1"] ~> ~pending["w1"]

\* A request is waiting while the loop of ensureBuffer runs on candidates
\* that do not match, without reaching an await.
C14_Witness ==
    /\ pending["w1"]
    /\ pc["w1"] = "search"
    /\ spin["w1"] = 1
    /\ ~AtAwait("w1")
    /\ ~Matchable(Pattern("w1"))

\* C16 (as claimed): with a store that does not fail, every pattern of
\* TARGETS is evaluated again and again, and every pattern's buffer is
\* eventually filled, SB of the default SNOW,SB included.
C16_NoPatternStarves ==
    \A i \in 1..Len(DefaultTargets) :
        /\ []<>(pc["w1"] = "count" /\ idx["w1"] = i)
        /\ <>(ReadyCount(store, targets[i]) >= MIN_BUFFER)

\* Under the default SNOW,SB the fill of SNOW is still searching, no row
\* for SB has been written and SB has not been evaluated.
C16_Witness ==
    /\ targets = DefaultTargets
    /\ idx["w1"] = 1
    /\ pc["w1"] = "search"
    /\ generated["w1"]
    /\ \A k \in WideKeyIds : IsBase58(PubOf(k)) /\ ~matches(PubOf(k), targets[1])
    /\ RowsOf(store, targets[2]) = {}

\* C15 (as claimed): started with at most MIN_BUFFER ready rows per
\* pattern, the table never holds more than MIN_BUFFER ready rows of a
\* pattern, also with several workers replenishing it.
C15_ReadyNeverExceedsMin ==
    \A i \in 1..Len(targets) : ReadyCount(store, targets[i]) <= MIN_BUFFER

\* Two workers that both read a count below MIN_BUFFER have both inserted,
\* and the pattern has more than MIN_BUFFER ready rows.
C15_Witness ==
    /\ inserted["w1"] > 0
    /\ inserted["w2"] > 0
    /\ ready["w1"] < MIN_BUFFER
    /\ ready["w2"] < MIN_BUFFER
    /\ ReadyCount(store, targets[1]) > MIN_BUFFER

\* C17 (as claimed): every non-empty key material gives a key of exactly
\* 32 bytes, so encryptSecret fails on nothing but a missing key.
C17_KeyIs32Bytes ==
    (cstep # "idle" /\ sealKey # NoKey) =>
        /\ getKey(sealKey).ok
        /\ Len(getKey(sealKey).val) = KEY_LENGTH
        /\ sealed.ok

\* encryptSecret failed on the length of the key that 44 characters of the
\* base-64 alphabet, without padding, decode to.
C17_Witness ==
    /\ cstep = "sealFailed"
    /\ sealKey = Base64Unpadded
    /\ IsBase64Key(sealKey)
    /\ Len(getKey(sealKey).val) = KEY_LENGTH + 1
    /\ sealed = Err("Invalid key length")

\* w's loop has just rejected a candidate that does not match.
RejectsCandidate(w) == pc[w] = "search" /\ pc'[w] = "search" /\ spin'[w] # spin[w]

\* C18: every row's publicKey ends, case-sensitively, with the row's
\* pattern, also after a fill that an error ended; a candidate awaiting its
\* create matches the pattern of the call; and an iteration whose candidate
\* does not match seals nothing and leaves the table and the call's
\* counters as they are.
C18_RowsMatch ==
    /\ \A r \in store :
          /\ Len(r.publicKey) >= Len(r.pattern)
          /\ SubArray(r.publicKey, Len(r.publicKey) - Len(r.pattern), Len(r.publicKey)) = r.pattern
    /\ \A w \in Workers :
          cand[w] # NoCand =>
              /\ pc[w] = "create"
              /\ EndsWith(cand[w].pub, Pattern(w))

C18_MissIsSilent ==
    \A w \in Workers :
        RejectsCandidate(w) =>
            /\ store' = store
            /\ cand'[w] = NoCand
            /\ lastOp'[w] = lastOp[w]
            /\ found'[w] = found[w]
            /\ inserted'[w] = inserted[w]

C18_OnlyMatchesAreStored == [](C18_RowsMatch) /\ [][C18_MissIsSilent]_vars

\* A fill that inserted a row and then rejected a candidate was ended by a
\* store failure; its row is in the table.
C18_Witness ==
    \E w \in Workers :
        /\ pc[w] = "threw"
        /\ err[w] = "StoreError"
        /\ inserted[w] = 1
        /\ generated[w]
        /\ \E r \in store : r.pattern = Pattern(w) /\ r # EarlierRow

\* C19: a step of the worker (one that changes anything of main or
\* ensureBuffer) keeps every row as it is and adds at most rows that are
\* 'ready' and caseSensitive; no step at all removes a row or changes
\* anything of a row but its status, and the status changes only in steps
\* that are not the worker's.
C19_WorkerStep ==
    workerVars' # workerVars =>
        /\ store \subseteq store'
        /\ Cardinality(store' \ store) <= 1
        /\ \A r \in store' \ store : r.status = "ready" /\ r.caseSensitive

C19_RowsStay ==
    \A r \in store :
        \E r2 \in store' :
            /\ r2.publicKey = r.publicKey
            /\ r2.encSecret = r.encSecret
            /\ r2.pattern = r.pattern
            /\ r2.caseSensitive = r.caseSensitive
            /\ r2.status # r.status => workerVars' = workerVars

C19_WorkerOnlyAddsRows == [][C19_WorkerStep /\ C19_RowsStay]_vars

\* The worker has inserted a row into a table that holds a row the
\* reservation workflow has taken.
C19_Witness ==
    \E w \in Workers :
        /\ inserted[w] > 0
        /\ lastOp[w] = "ok"
        /\ pc[w] = "search"
        /\ \E r \in store : r.status = "reserved"
        /\ \E r \in store : r.status = "ready" /\ r.pattern = Pattern(w)
        /\ Cardinality(store) >= 3

\* C20 (as claimed): in the variant without try/catch in ensureSchema too,
\* a store failure leaves the process running: after it the process is in
\* its loop or on its way into it, never gone.
C20_StoreFailureIsSurvived ==
    \A w \in Workers :
        err[w] = "StoreError" =>
            pc[w] \in { "count", "search", "create", "returned", "threw", "sleep" }

\* The schema bootstrap failed and the process has exited before its loop:
\* no pattern was evaluated.
C20_Witness ==
    /\ pc["w1"] = "exited"
    /\ err["w1"] = "StoreError"
    /\ lastOp["w1"] = "none"
    /\ ~generated["w1"]

====
